---- MODULE Spec2Model ----
(***************************************************************************)
(* The HTTP handler layer of ExpenseOwl (internal/api/handlers.go) as a    *)
(* state machine.  One action per handler; a handler is an operator from   *)
(* (world, request, environment) to (response, collaborator calls, world). *)
(* Storage, Config, Expense.Validate and the web renderer live outside     *)
(* handlers.go; they are modelled from their documented contract.          *)
(***************************************************************************)
EXTENDS Integers, Sequences, FiniteSets, TLC

VARIABLES
    expenses,    \* Storage: the stored expenses, in storage order
    nextID,      \* Storage: number of identifiers handed out so far
    categories,  \* Config.Categories
    currency,    \* Config.Currency
    req,         \* the request handled last
    env,         \* the errors the collaborators returned to that request
    resp,        \* the response written for it
    calls,       \* the collaborator calls the handler made for it, in order
    gpc,         \* concurrent GetCategories: position in the handler
    gcats,       \* concurrent GetCategories: value read from h.config.Categories
    gcur,        \* concurrent GetCategories: value read from h.config.Currency
    held,        \* (categories, currency) pairs Config held since the request began
    nreq         \* concurrent requests started so far

vars == <<expenses, nextID, categories, currency, req, env, resp, calls,
          gpc, gcats, gcur, held, nreq>>

seqVars == <<expenses, nextID, categories, currency, req, env, resp, calls>>
concVars == <<gpc, gcats, gcur, held, nreq>>

(***************************************************************************)
(* Bounds of the model.                                                    *)
(***************************************************************************)
MaxExpenses == 2
MaxID == 2
MaxConcReq == 3

(***************************************************************************)
(* Strings that are rendered or split are sequences of one-character       *)
(* strings; the others are plain strings.                                  *)
(***************************************************************************)
Comma == ","
Semicolon == ";"
Newline == "\n"

DigitChars == <<"0", "1", "2", "3", "4", "5", "6", "7", "8", "9">>

Digit(n) == DigitChars[n + 1]

TwoDigits(n) == <<Digit((n \div 10) % 10), Digit(n % 10)>>

RECURSIVE Digits(_)
Digits(n) == IF n < 10 THEN <<Digit(n)>> ELSE Digits(n \div 10) \o <<Digit(n % 10)>>

RECURSIVE Concat(_)
Concat(ss) == IF ss = <<>> THEN <<>> ELSE Head(ss) \o Concat(Tail(ss))

(***************************************************************************)
(* time.Time: an instant (hours since 0001-01-01 00:00 UTC) and the offset *)
(* of its location, in hours.                                              *)
(***************************************************************************)
ZeroTime == [inst |-> 0, off |-> 0]

IsZero(t) == t.inst = 0

UTC(t) == [inst |-> t.inst, off |-> 0]


(***************************************************************************)
(* fmt.Sprintf("%.2f", amount).  Amounts are fixed-point thousandths; the  *)
(* input sets hold no amount that lies half-way between two cents, where   *)
(* the binary representation of the float decides the rounding.            *)
(***************************************************************************)
FormatAmount(a) ==
    LET abs == IF a < 0 THEN -a ELSE a
        cents == (abs + 5) \div 10
    IN  (IF a < 0 THEN <<"-">> ELSE <<>>)
            \o Digits(cents \div 100) \o <<".">> \o TwoDigits(cents % 100)

(***************************************************************************)
(* expense.Date.Format("2006-01-02 15:04:05"): the wall clock of the       *)
(* time's own location.  Instants stay within January of year 1.           *)
(***************************************************************************)
FormatDate(t) ==
    LET wall == t.inst + t.off
    IN  IF wall >= 0
        THEN <<"0", "0", "0", "1", "-", "0", "1", "-">> \o TwoDigits(wall \div 24 + 1)
                 \o <<" ">> \o TwoDigits(wall % 24) \o <<":", "0", "0", ":", "0", "0">>
        ELSE <<"0", "0", "0", "0", "-", "1", "2", "-", "3", "1", " ">>
                 \o TwoDigits(24 + wall) \o <<":", "0", "0", ":", "0", "0">>

(* strings.ReplaceAll(s, old, new) for a one-character old and new *)
ReplaceAll(s, old, new) == [i \in 1..Len(s) |-> IF s[i] = old THEN new ELSE s[i]]

(***************************************************************************)
(* Responses.                                                              *)
(***************************************************************************)
NoDisposition == ""

(* http.Error(w, msg, code) *)
HttpError(msg, code) ==
    [status |-> code, ctype |-> "text/plain", disposition |-> NoDisposition,
     body |-> [kind |-> "text", text |-> msg]]

(* writeJSON(w, status, v) *)
writeJSON(status, v) ==
    [status |-> status, ctype |-> "application/json", disposition |-> NoDisposition,
     body |-> v]

ErrorResponse(msg) == [kind |-> "error", error |-> msg]

StatusSuccess == [kind |-> "status", status |-> "success"]

(* ConfigResponse{Categories, Currency} *)
ConfigResponse(cats, cur) == [kind |-> "config", categories |-> cats, currency |-> cur]

(* What a handler did: the response, the collaborator calls, the world after. *)
Reply(w, r, cs) == [resp |-> r, calls |-> cs, world |-> w]

(***************************************************************************)
(* json.NewDecoder(r.Body).Decode(&v).  A body is a JSON value, malformed  *)
(* text, or absent.  JSON null decodes into any target and leaves its zero *)
(* value; a value of the wrong JSON type is a decode error.                *)
(***************************************************************************)
Decoded(v) == [err |-> "", val |-> v]

DecodeFailed(detail) == [err |-> detail, val |-> <<>>]

DecodeError(body) ==
    IF body.kind = "none" THEN "EOF"
    ELSE IF body.kind = "malformed" THEN "invalid character"
    ELSE "json: cannot unmarshal value"

DecodeCategories(body) ==
    IF body.kind = "array" THEN Decoded(body.items)
    ELSE IF body.kind = "null" THEN Decoded(<<>>)
    ELSE DecodeFailed(DecodeError(body))

DecodeCurrency(body) ==
    IF body.kind = "string" THEN Decoded(body.str)
    ELSE IF body.kind = "null" THEN Decoded("")
    ELSE DecodeFailed(DecodeError(body))

DecodeExpenseRequest(body) ==
    IF body.kind = "object"
    THEN Decoded([name |-> body.name, category |-> body.category,
                  amount |-> body.amount, date |-> body.date])
    ELSE IF body.kind = "null"
    THEN Decoded([name |-> <<>>, category |-> <<>>, amount |-> 0, date |-> ZeroTime])
    ELSE DecodeFailed(DecodeError(body))

(***************************************************************************)
(* config.Expense.Validate: name and category present, amount not          *)
(* negative.  The empty string is the nil error.                           *)
(***************************************************************************)
Validate(expense) ==
    IF expense.Name = <<>> THEN "expense name is required"
    ELSE IF expense.Category = <<>> THEN "category is required"
    ELSE IF expense.Amount < 0 THEN "amount must not be negative"
    ELSE ""

(***************************************************************************)
(* storage.Storage.  fault is the I/O error of this call ("" for none).    *)
(***************************************************************************)
ErrExpenseNotFound == "expense not found"

NewID(n) == <<"e">> \o Digits(n)

HasID(es, id) == \E i \in 1..Len(es) : es[i].ID = id

SaveExpense(w, expense, fault) ==
    IF fault # ""
    THEN [err |-> fault, world |-> w, expense |-> expense]
    ELSE LET stored == IF expense.ID = <<>>
                       THEN [expense EXCEPT !.ID = NewID(w.nextID + 1)]
                       ELSE expense
         IN  [err |-> "",
              world |-> [w EXCEPT !.expenses = Append(@, stored), !.nextID = @ + 1],
              expense |-> stored]

GetAllExpenses(w, fault) ==
    IF fault # "" THEN [err |-> fault, list |-> <<>>]
    ELSE [err |-> "", list |-> w.expenses]

StorageDeleteExpense(w, id, fault) ==
    IF fault # "" THEN [err |-> fault, world |-> w]
    ELSE IF ~HasID(w.expenses, id) THEN [err |-> ErrExpenseNotFound, world |-> w]
    ELSE [err |-> "",
          world |-> [w EXCEPT !.expenses = SelectSeq(@, LAMBDA x : x.ID # id)]]

(***************************************************************************)
(* config.Config                                                           *)
(***************************************************************************)
UpdateCategories(w, cats) == [w EXCEPT !.categories = cats]

UpdateCurrency(w, cur) == [w EXCEPT !.currency = cur]

(***************************************************************************)
(* web.ServeTemplate and web.ServeStatic                                   *)
(***************************************************************************)
ServeTemplate(name, fault) ==
    IF fault # "" THEN [err |-> fault, body |-> [kind |-> "empty"]]
    ELSE [err |-> "", body |-> [kind |-> "html", template |-> name]]

ServeStatic(path, fault) ==
    IF fault # "" THEN [err |-> fault, body |-> [kind |-> "empty"]]
    ELSE [err |-> "", body |-> [kind |-> "asset", path |-> path]]


(***************************************************************************)
(* The handlers.  w is the world (storage and config) the request meets,   *)
(* r the request, e the error each collaborator returns to it.             *)
(***************************************************************************)
MethodNotAllowed(w) == Reply(w, HttpError("Method not allowed", 405), <<>>)

Call(fn, err) == [fn |-> fn, err |-> err]

GetCategories(w, r, e) ==
    IF r.method # "GET" THEN MethodNotAllowed(w)
    ELSE Reply(w, writeJSON(200, ConfigResponse(w.categories, w.currency)), <<>>)

(* EditCategories reading the body before it looks at the method *)
EditCategories_DecodesFirst(w, r, e) ==
    LET dec == DecodeCategories(r.body)
        c1 == <<Call("Decode", dec.err)>>
    IN  IF r.method # "PUT" THEN Reply(w, HttpError("Method not allowed", 405), c1)
        ELSE IF dec.err # ""
        THEN Reply(w, writeJSON(400, ErrorResponse("Invalid request body")), c1)
        ELSE Reply(UpdateCategories(w, dec.val), writeJSON(200, StatusSuccess),
                   Append(c1, Call("UpdateCategories", "")))

(* EditCategories adding the new list to the old one *)
EditCategories_Merges(w, r, e) ==
    IF r.method # "PUT" THEN MethodNotAllowed(w)
    ELSE LET dec == DecodeCategories(r.body)
             c1 == <<Call("Decode", dec.err)>>
         IN  IF dec.err # ""
             THEN Reply(w, writeJSON(400, ErrorResponse("Invalid request body")), c1)
             ELSE Reply(UpdateCategories(w, w.categories \o dec.val),
                        writeJSON(200, StatusSuccess),
                        Append(c1, Call("UpdateCategories", "")))

EditCategories(w, r, e) ==
    IF r.method # "PUT" THEN MethodNotAllowed(w)
    ELSE LET dec == DecodeCategories(r.body)
             c1 == <<Call("Decode", dec.err)>>
         IN  IF dec.err # ""
             THEN Reply(w, writeJSON(400, ErrorResponse("Invalid request body")), c1)
             ELSE Reply(UpdateCategories(w, dec.val), writeJSON(200, StatusSuccess),
                        Append(c1, Call("UpdateCategories", "")))

EditCurrency(w, r, e) ==
    IF r.method # "PUT" THEN MethodNotAllowed(w)
    ELSE LET dec == DecodeCurrency(r.body)
             c1 == <<Call("Decode", dec.err)>>
         IN  IF dec.err # ""
             THEN Reply(w, writeJSON(400, ErrorResponse("Invalid request body")), c1)
             ELSE Reply(UpdateCurrency(w, dec.val), writeJSON(200, StatusSuccess),
                        Append(c1, Call("UpdateCurrency", "")))

(* the date left as the request gave it *)
NormalizeDate_Never(d) == d

(* lines 103-105: a non-zero date is normalised to UTC *)
NormalizeDate(d) == IF ~IsZero(d) THEN UTC(d) ELSE d

(* lines 106-111: the Expense built from the request; the ID is left empty *)
NewExpense(rq) ==
    [ID |-> <<>>, Name |-> rq.name, Category |-> rq.category,
     Amount |-> rq.amount, Date |-> NormalizeDate(rq.date)]

ExpenseCall(fn, expense, err) == [fn |-> fn, err |-> err, expense |-> expense]

(* AddExpense without the return that follows a failed validation *)
AddExpense_NoReturnOnInvalid(w, r, e) ==
    IF r.method # "PUT" THEN MethodNotAllowed(w)
    ELSE LET dec == DecodeExpenseRequest(r.body)
             c1 == <<Call("Decode", dec.err)>>
         IN  IF dec.err # ""
             THEN Reply(w, writeJSON(400, ErrorResponse("Invalid request body")), c1)
             ELSE LET expense == NewExpense(dec.val)
                      verr == Validate(expense)
                      c2 == Append(c1, ExpenseCall("Validate", expense, verr))
                      sv == SaveExpense(w, expense, e.storage)
                      c3 == Append(c2, ExpenseCall("SaveExpense", expense, sv.err))
                  IN  IF verr # ""
                      THEN Reply(sv.world, writeJSON(400, ErrorResponse(verr)), c3)
                      ELSE IF sv.err # ""
                      THEN Reply(sv.world,
                                 writeJSON(500, ErrorResponse("Failed to save expense")), c3)
                      ELSE Reply(sv.world,
                                 writeJSON(200, [kind |-> "expense", expense |-> sv.expense]),
                                 c3)

(* AddExpense answering with the expense as built from the request *)
AddExpense_RespondsWithRequest(w, r, e) ==
    IF r.method # "PUT" THEN MethodNotAllowed(w)
    ELSE LET dec == DecodeExpenseRequest(r.body)
             c1 == <<Call("Decode", dec.err)>>
         IN  IF dec.err # ""
             THEN Reply(w, writeJSON(400, ErrorResponse("Invalid request body")), c1)
             ELSE LET expense == NewExpense(dec.val)
                      verr == Validate(expense)
                      c2 == Append(c1, ExpenseCall("Validate", expense, verr))
                  IN  IF verr # ""
                      THEN Reply(w, writeJSON(400, ErrorResponse(verr)), c2)
                      ELSE LET sv == SaveExpense(w, expense, e.storage)
                               c3 == Append(c2, ExpenseCall("SaveExpense", expense, sv.err))
                           IN  IF sv.err # ""
                               THEN Reply(sv.world,
                                          writeJSON(500, ErrorResponse("Failed to save expense")),
                                          c3)
                               ELSE Reply(sv.world,
                                          writeJSON(200, [kind |-> "expense",
                                                          expense |-> expense]),
                                          c3)

(* AddExpense putting the storage error into the response *)
AddExpense_LeaksSaveError(w, r, e) ==
    IF r.method # "PUT" THEN MethodNotAllowed(w)
    ELSE LET dec == DecodeExpenseRequest(r.body)
             c1 == <<Call("Decode", dec.err)>>
         IN  IF dec.err # ""
             THEN Reply(w, writeJSON(400, ErrorResponse("Invalid request body")), c1)
             ELSE LET expense == NewExpense(dec.val)
                      verr == Validate(expense)
                      c2 == Append(c1, ExpenseCall("Validate", expense, verr))
                  IN  IF verr # ""
                      THEN Reply(w, writeJSON(400, ErrorResponse(verr)), c2)
                      ELSE LET sv == SaveExpense(w, expense, e.storage)
                               c3 == Append(c2, ExpenseCall("SaveExpense", expense, sv.err))
                           IN  IF sv.err # ""
                               THEN Reply(sv.world, writeJSON(500, ErrorResponse(sv.err)), c3)
                               ELSE Reply(sv.world,
                                          writeJSON(200, [kind |-> "expense",
                                                          expense |-> sv.expense]),
                                          c3)

AddExpense(w, r, e) ==
    IF r.method # "PUT" THEN MethodNotAllowed(w)
    ELSE LET dec == DecodeExpenseRequest(r.body)
             c1 == <<Call("Decode", dec.err)>>
         IN  IF dec.err # ""
             THEN Reply(w, writeJSON(400, ErrorResponse("Invalid request body")), c1)
             ELSE LET expense == NewExpense(dec.val)
                      verr == Validate(expense)
                      c2 == Append(c1, ExpenseCall("Validate", expense, verr))
                  IN  IF verr # ""
                      THEN Reply(w, writeJSON(400, ErrorResponse(verr)), c2)
                      ELSE LET sv == SaveExpense(w, expense, e.storage)
                               c3 == Append(c2, ExpenseCall("SaveExpense", expense, sv.err))
                           IN  IF sv.err # ""
                               THEN Reply(sv.world,
                                          writeJSON(500, ErrorResponse("Failed to save expense")),
                                          c3)
                               ELSE Reply(sv.world,
                                          writeJSON(200, [kind |-> "expense",
                                                          expense |-> sv.expense]),
                                          c3)

GetExpenses(w, r, e) ==
    IF r.method # "GET" THEN MethodNotAllowed(w)
    ELSE LET got == GetAllExpenses(w, e.storage)
             c1 == <<Call("GetAllExpenses", got.err)>>
         IN  IF got.err # ""
             THEN Reply(w, writeJSON(500, ErrorResponse("Failed to retrieve expenses")), c1)
             ELSE Reply(w, writeJSON(200, [kind |-> "expenses", list |-> got.list]), c1)

(* lines 146-151, 160-165, 173-177: the body shared by the three view handlers *)
ServeView(w, r, e, name) ==
    IF r.method # "GET" THEN MethodNotAllowed(w)
    ELSE LET tp == ServeTemplate(name, e.render)
             c1 == <<Call("ServeTemplate", tp.err)>>
         IN  IF tp.err # ""
             THEN Reply(w, HttpError("Failed to serve template", 500), c1)
             ELSE Reply(w, [status |-> 200, ctype |-> "text/html",
                            disposition |-> NoDisposition, body |-> tp.body], c1)

ServeTableView(w, r, e) == ServeView(w, r, e, "table.html")

ServeSettingsPage(w, r, e) == ServeView(w, r, e, "settings.html")

ServeAPISetupView(w, r, e) == ServeView(w, r, e, "api-setup.html")

(* DeleteExpense without the branch for the not-found error *)
DeleteExpense_NotFoundIsFailure(w, r, e) ==
    IF r.method # "DELETE" THEN MethodNotAllowed(w)
    ELSE IF r.id = <<>>
    THEN Reply(w, writeJSON(400, ErrorResponse("ID parameter is required")), <<>>)
    ELSE LET del == StorageDeleteExpense(w, r.id, e.storage)
             c1 == <<Call("DeleteExpense", del.err)>>
         IN  IF del.err # ""
             THEN Reply(del.world,
                        writeJSON(500, ErrorResponse("Failed to delete expense")), c1)
             ELSE Reply(del.world, writeJSON(200, StatusSuccess), c1)

(* DeleteExpense without the check of the id parameter *)
DeleteExpense_NoIDCheck(w, r, e) ==
    IF r.method # "DELETE" THEN MethodNotAllowed(w)
    ELSE LET del == StorageDeleteExpense(w, r.id, e.storage)
             c1 == <<Call("DeleteExpense", del.err)>>
         IN  IF del.err # ""
             THEN IF del.err = ErrExpenseNotFound
                  THEN Reply(del.world, writeJSON(404, ErrorResponse("Expense not found")), c1)
                  ELSE Reply(del.world,
                             writeJSON(500, ErrorResponse("Failed to delete expense")), c1)
             ELSE Reply(del.world, writeJSON(200, StatusSuccess), c1)

DeleteExpense(w, r, e) ==
    IF r.method # "DELETE" THEN MethodNotAllowed(w)
    ELSE IF r.id = <<>>
    THEN Reply(w, writeJSON(400, ErrorResponse("ID parameter is required")), <<>>)
    ELSE LET del == StorageDeleteExpense(w, r.id, e.storage)
             c1 == <<Call("DeleteExpense", del.err)>>
         IN  IF del.err # ""
             THEN IF del.err = ErrExpenseNotFound
                  THEN Reply(del.world, writeJSON(404, ErrorResponse("Expense not found")), c1)
                  ELSE Reply(del.world,
                             writeJSON(500, ErrorResponse("Failed to delete expense")), c1)
             ELSE Reply(del.world, writeJSON(200, StatusSuccess), c1)

ServeStaticFile(w, r, e) ==
    IF r.method # "GET" THEN MethodNotAllowed(w)
    ELSE LET st == ServeStatic(r.path, e.static)
             c1 == <<Call("ServeStatic", st.err)>>
         IN  IF st.err # ""
             THEN Reply(w, HttpError("Failed to serve static file", 500), c1)
             ELSE Reply(w, [status |-> 200, ctype |-> "asset",
                            disposition |-> NoDisposition, body |-> st.body], c1)

CSVHeader ==
    <<"I", "D", ",", "N", "a", "m", "e", ",", "C", "a", "t", "e", "g", "o", "r", "y", ",",
      "A", "m", "o", "u", "n", "t", ",", "D", "a", "t", "e", "\n">>

(* lines 238-244: one line of the export *)
CSVLine(expense) ==
    Concat(<<expense.ID, <<Comma>>,
             ReplaceAll(expense.Name, Comma, Semicolon), <<Comma>>,
             expense.Category, <<Comma>>,
             FormatAmount(expense.Amount), <<Comma>>,
             FormatDate(expense.Date), <<Newline>>>>)

(* lines 236-246: the bytes written to the response *)
CSVBody(list) == CSVHeader \o Concat([i \in 1..Len(list) |-> CSVLine(list[i])])

ExportCSV(w, r, e) ==
    IF r.method # "GET" THEN MethodNotAllowed(w)
    ELSE LET got == GetAllExpenses(w, e.storage)
             c1 == <<Call("GetAllExpenses", got.err)>>
         IN  IF got.err # ""
             THEN Reply(w, writeJSON(500, ErrorResponse("Failed to retrieve expenses")), c1)
             ELSE Reply(w, [status |-> 200, ctype |-> "text/csv",
                            disposition |-> "attachment; filename=expenses.csv",
                            body |-> [kind |-> "csv", chars |-> CSVBody(got.list)]], c1)

ExportJSON(w, r, e) ==
    IF r.method # "GET" THEN MethodNotAllowed(w)
    ELSE LET got == GetAllExpenses(w, e.storage)
             c1 == <<Call("GetAllExpenses", got.err)>>
         IN  IF got.err # ""
             THEN Reply(w, writeJSON(500, ErrorResponse("Failed to retrieve expenses")), c1)
             ELSE LET c2 == Append(c1, Call("MarshalIndent", e.marshal))
                  IN  IF e.marshal # ""
                      THEN Reply(w, [HttpError("Failed to marshal JSON data", 500)
                                        EXCEPT !.disposition =
                                            "attachment; filename=expenses.json"], c2)
                      ELSE Reply(w, [status |-> 200, ctype |-> "application/json",
                                     disposition |-> "attachment; filename=expenses.json",
                                     body |-> [kind |-> "jsonfile", indent |-> "    ",
                                               list |-> got.list]], c2)


(***************************************************************************)
(* The inputs of the model.                                                *)
(***************************************************************************)
Methods == {"GET", "PUT", "DELETE", "POST"}

(* "" is the nil error; the others are two different error details *)
Faults == {"", "disk full", "permission denied"}

NoFaults == [storage |-> "", marshal |-> "", render |-> "", static |-> ""]

StorageEnvs == {[NoFaults EXCEPT !.storage = f] : f \in Faults}

RenderEnvs == {[NoFaults EXCEPT !.render = f] : f \in Faults}

StaticEnvs == {[NoFaults EXCEPT !.static = f] : f \in Faults}

ExportJSONEnvs == StorageEnvs \cup {[NoFaults EXCEPT !.marshal = f] : f \in Faults}

NoBody == [kind |-> "none"]

Malformed == [kind |-> "malformed"]

NullBody == [kind |-> "null"]

Coffee == <<"a">>

Food == <<"F">>

Fun == <<"G">>

ObjectBody(n, c, a, d) ==
    [kind |-> "object", name |-> n, category |-> c, amount |-> a, date |-> d]

ArrayBody(items) == [kind |-> "array", items |-> items]

StringBody(str) == [kind |-> "string", str |-> str]

Times(insts, offs) == {[inst |-> i, off |-> o] : i \in insts, o \in offs}

ExpenseBodies ==
    {Malformed, NullBody, StringBody("eur")}
        \cup {ObjectBody(n, c, a, d) : n \in {<<>>, Coffee}, c \in {<<>>, Food},
                                       a \in {-1000, 3500},
                                       d \in {ZeroTime, [inst |-> 5, off |-> 1]}}

CategoryBodies ==
    {Malformed, NullBody, StringBody("eur")}
        \cup {ArrayBody(l) : l \in {<<>>, <<Fun, Food>>, <<Food, Food>>}}

CurrencyBodies == {Malformed, ArrayBody(<<>>), StringBody("eur"), StringBody("usd")}

IDs == {<<>>} \cup {NewID(n) : n \in 1..MaxID}

Paths == {"/style.css", "/missing.js"}

Request(h, m, id, path, body) ==
    [handler |-> h, method |-> m, id |-> id, path |-> path, body |-> body]

NoRequest == Request("", "", <<>>, "", NoBody)

NoResponse == [status |-> 0, ctype |-> "", disposition |-> NoDisposition,
               body |-> [kind |-> "empty"]]

(***************************************************************************)
(* The state machine: requests are served one after the other.             *)
(***************************************************************************)
World == [expenses |-> expenses, nextID |-> nextID,
          categories |-> categories, currency |-> currency]

Init ==
    /\ expenses = <<>>
    /\ nextID = 0
    /\ categories = <<Food>>
    /\ currency = "usd"
    /\ req = NoRequest
    /\ env = NoFaults
    /\ resp = NoResponse
    /\ calls = <<>>
    /\ gpc = "idle"
    /\ gcats = <<>>
    /\ gcur = ""
    /\ held = {}
    /\ nreq = 0

(* The request r, served in environment e, had the outcome out. *)
Serve(r, e, out) ==
    /\ Len(out.world.expenses) <= MaxExpenses
    /\ out.world.nextID <= MaxID
    /\ expenses' = out.world.expenses
    /\ nextID' = out.world.nextID
    /\ categories' = out.world.categories
    /\ currency' = out.world.currency
    /\ req' = r
    /\ env' = e
    /\ resp' = out.resp
    /\ calls' = out.calls
    /\ UNCHANGED concVars

(***************************************************************************)
(* The requests a route receives: with the route's own method, every body, *)
(* parameter and collaborator outcome of the input sets; with another      *)
(* method, the same request with its first or no body.                     *)
(***************************************************************************)
RouteMethod(h) ==
    IF h \in {"EditCategories", "EditCurrency", "AddExpense"} THEN "PUT"
    ELSE IF h = "DeleteExpense" THEN "DELETE"
    ELSE "GET"

Inputs(h, ids, paths, bodies, envs) ==
    {<<Request(h, RouteMethod(h), i, p, b), e>> :
        i \in ids, p \in paths, b \in bodies, e \in envs}
    \cup {<<Request(h, m, CHOOSE i \in ids : TRUE, CHOOSE p \in paths : TRUE, b), NoFaults>> :
            m \in Methods \ {RouteMethod(h)},
            b \in {NoBody, CHOOSE b \in bodies : b.kind \notin {"malformed", "null"}}}

GetCategoriesReq ==
    \E in \in Inputs("GetCategories", {<<>>}, {""}, {NoBody}, {NoFaults}) :
        Serve(in[1], in[2], GetCategories(World, in[1], in[2]))

EditCategoriesReq ==
    \E in \in Inputs("EditCategories", {<<>>}, {""}, CategoryBodies, {NoFaults}) :
        Serve(in[1], in[2], EditCategories(World, in[1], in[2]))

EditCurrencyReq ==
    \E in \in Inputs("EditCurrency", {<<>>}, {""}, CurrencyBodies, {NoFaults}) :
        Serve(in[1], in[2], EditCurrency(World, in[1], in[2]))

AddExpenseReq(bodies) ==
    \E in \in Inputs("AddExpense", {<<>>}, {""}, bodies, StorageEnvs) :
        Serve(in[1], in[2], AddExpense(World, in[1], in[2]))

GetExpensesReq ==
    \E in \in Inputs("GetExpenses", {<<>>}, {""}, {NoBody}, StorageEnvs) :
        Serve(in[1], in[2], GetExpenses(World, in[1], in[2]))

DeleteExpenseReq ==
    \E in \in Inputs("DeleteExpense", IDs, {""}, {NoBody}, StorageEnvs) :
        Serve(in[1], in[2], DeleteExpense(World, in[1], in[2]))

ExportCSVReq ==
    \E in \in Inputs("ExportCSV", {<<>>}, {""}, {NoBody}, StorageEnvs) :
        Serve(in[1], in[2], ExportCSV(World, in[1], in[2]))

ExportJSONReq ==
    \E in \in Inputs("ExportJSON", {<<>>}, {""}, {NoBody}, ExportJSONEnvs) :
        Serve(in[1], in[2], ExportJSON(World, in[1], in[2]))

ServeTableViewReq ==
    \E in \in Inputs("ServeTableView", {<<>>}, {""}, {NoBody}, RenderEnvs) :
        Serve(in[1], in[2], ServeTableView(World, in[1], in[2]))

ServeSettingsPageReq ==
    \E in \in Inputs("ServeSettingsPage", {<<>>}, {""}, {NoBody}, RenderEnvs) :
        Serve(in[1], in[2], ServeSettingsPage(World, in[1], in[2]))

ServeAPISetupViewReq ==
    \E in \in Inputs("ServeAPISetupView", {<<>>}, {""}, {NoBody}, RenderEnvs) :
        Serve(in[1], in[2], ServeAPISetupView(World, in[1], in[2]))

ServeStaticFileReq ==
    \E in \in Inputs("ServeStaticFile", {<<>>}, Paths, {NoBody}, StaticEnvs) :
        Serve(in[1], in[2], ServeStaticFile(World, in[1], in[2]))

Next ==
    \/ GetCategoriesReq
    \/ EditCategoriesReq
    \/ EditCurrencyReq
    \/ AddExpenseReq(ExpenseBodies)
    \/ GetExpensesReq
    \/ DeleteExpenseReq
    \/ ExportCSVReq
    \/ ExportJSONReq
    \/ ServeTableViewReq
    \/ ServeSettingsPageReq
    \/ ServeAPISetupViewReq
    \/ ServeStaticFileReq

Spec == Init /\ [][Next]_vars


(***************************************************************************)
(* The claims.  A step of Spec serves one request: req', env', resp' and   *)
(* calls' describe it, the unprimed variables the world it met.            *)
(***************************************************************************)
Handlers ==
    {"GetCategories", "EditCategories", "EditCurrency", "AddExpense", "GetExpenses",
     "DeleteExpense", "ExportCSV", "ExportJSON", "ServeTableView", "ServeSettingsPage",
     "ServeAPISetupView", "ServeStaticFile"}

Called(cs, fn) == \E i \in 1..Len(cs) : cs[i].fn = fn

CallOf(cs, fn) == cs[CHOOSE i \in 1..Len(cs) : cs[i].fn = fn]

(* C1: a request whose method is not the handler's own is answered 405      *)
(* before anything else is done: no decode, no collaborator call, and the   *)
(* stored expenses, the categories and the currency stay as they were.      *)
C1_MethodNotAllowed ==
    [][(req'.handler \in Handlers /\ req'.method # RouteMethod(req'.handler))
         => /\ resp'.status = 405
            /\ resp'.body = [kind |-> "text", text |-> "Method not allowed"]
            /\ calls' = <<>>
            /\ expenses' = expenses
            /\ nextID' = nextID
            /\ categories' = categories
            /\ currency' = currency]_vars

C1_Witness ==
    /\ req.handler = "AddExpense"
    /\ req.method = "POST"
    /\ req.body # NoBody
    /\ resp.status = 405
    /\ Len(expenses) = 1

(* C2: in AddExpense, whenever expense.Validate() returns an error the      *)
(* response is 400, SaveExpense is not called and the stored expenses are   *)
(* the same after the request as before it.                                 *)
C2_InvalidNeverPersisted ==
    [][(/\ req'.handler = "AddExpense"
        /\ Called(calls', "Validate")
        /\ CallOf(calls', "Validate").err # "")
         => /\ resp'.status = 400
            /\ ~Called(calls', "SaveExpense")
            /\ expenses' = expenses]_vars

C2_Witness ==
    /\ req.handler = "AddExpense"
    /\ Called(calls, "Validate")
    /\ CallOf(calls, "Validate").err = "amount must not be negative"
    /\ resp.status = 400
    /\ Len(expenses) = 1

(* C3: from an empty store, a successful AddExpense stores exactly one      *)
(* expense with a non-empty identifier and the request's name, category and *)
(* amount, and answers 200 with that stored expense; a GetExpenses that     *)
(* follows it returns exactly that one entry.                               *)
C3_RoundTrip ==
    [][/\ (/\ expenses = <<>>
           /\ req'.handler = "AddExpense"
           /\ resp'.status = 200)
            => /\ Len(expenses') = 1
               /\ expenses'[1].ID # <<>>
               /\ expenses'[1].Name = req'.body.name
               /\ expenses'[1].Category = req'.body.category
               /\ expenses'[1].Amount = req'.body.amount
               /\ resp'.body = [kind |-> "expense", expense |-> expenses'[1]]
       /\ (/\ req.handler = "AddExpense"
           /\ resp.status = 200
           /\ Len(expenses) = 1
           /\ req'.handler = "GetExpenses"
           /\ resp'.status = 200)
            => /\ resp'.body.kind = "expenses"
               /\ Len(resp'.body.list) = 1
               /\ resp'.body.list[1] = resp.body.expense
               /\ resp'.body.list[1].ID # <<>>
               /\ resp'.body.list[1].Name = req.body.name
               /\ resp'.body.list[1].Category = req.body.category
               /\ resp'.body.list[1].Amount = req.body.amount]_vars

C3_Witness ==
    /\ req.handler = "GetExpenses"
    /\ resp.status = 200
    /\ resp.body.kind = "expenses"
    /\ Len(resp.body.list) = 1
    /\ resp.body.list[1].ID = NewID(1)
    /\ resp.body.list[1].Amount = 3500
    /\ nextID = 1

(* C4: deleting the id of a stored expense succeeds (200, status success)   *)
(* and removes it, so that a GetExpenses that follows does not list it; a   *)
(* second delete of the same id right after the first is answered 404.      *)
(* The storage returns no I/O error to the requests concerned.              *)
C4_DeleteTwice ==
    [][/\ (/\ req'.handler = "DeleteExpense"
           /\ req'.method = "DELETE"
           /\ HasID(expenses, req'.id)
           /\ env'.storage = "")
            => /\ resp'.status = 200
               /\ resp'.body = StatusSuccess
               /\ ~HasID(expenses', req'.id)
       /\ (/\ req.handler = "DeleteExpense"
           /\ resp.status = 200
           /\ req' = req
           /\ env'.storage = "")
            => resp'.status = 404
       /\ (/\ req.handler = "DeleteExpense"
           /\ resp.status = 200
           /\ req'.handler = "GetExpenses"
           /\ resp'.status = 200)
            => ~HasID(resp'.body.list, req.id)]_vars

C4_Witness ==
    /\ req.handler = "DeleteExpense"
    /\ req.id = NewID(1)
    /\ nextID = 1
    /\ expenses = <<>>
    /\ resp.status = 404

(* C5: a successful EditCategories with list L leaves exactly L as the      *)
(* category list, in order, whatever the list was before and whatever L     *)
(* holds, and leaves the currency alone; no other request changes the list; *)
(* GetCategories returns the list and the currency as they are.             *)
C5_CategoriesReplaced ==
    [][/\ (/\ req'.handler = "EditCategories"
           /\ resp'.status = 200)
            => /\ req'.body.kind \in {"array", "null"}
               /\ categories' = (IF req'.body.kind = "array" THEN req'.body.items ELSE <<>>)
               /\ currency' = currency
       /\ (~(req'.handler = "EditCategories" /\ resp'.status = 200))
            => categories' = categories
       /\ (/\ req'.handler = "GetCategories"
           /\ req'.method = "GET")
            => /\ resp'.status = 200
               /\ resp'.body.kind = "config"
               /\ resp'.body.categories = categories
               /\ resp'.body.currency = currency]_vars

C5_Witness ==
    /\ req.handler = "GetCategories"
    /\ resp.status = 200
    /\ resp.body.kind = "config"
    /\ resp.body.categories = <<Food, Food>>
    /\ resp.body.currency = "eur"


(* The handler a route is bound to (the path mapping is outside the layer). *)
Dispatch(w, r, e) ==
    CASE r.handler = "GetCategories" -> GetCategories(w, r, e)
      [] r.handler = "EditCategories" -> EditCategories(w, r, e)
      [] r.handler = "EditCurrency" -> EditCurrency(w, r, e)
      [] r.handler = "AddExpense" -> AddExpense(w, r, e)
      [] r.handler = "GetExpenses" -> GetExpenses(w, r, e)
      [] r.handler = "DeleteExpense" -> DeleteExpense(w, r, e)
      [] r.handler = "ExportCSV" -> ExportCSV(w, r, e)
      [] r.handler = "ExportJSON" -> ExportJSON(w, r, e)
      [] r.handler = "ServeTableView" -> ServeTableView(w, r, e)
      [] r.handler = "ServeSettingsPage" -> ServeSettingsPage(w, r, e)
      [] r.handler = "ServeAPISetupView" -> ServeAPISetupView(w, r, e)
      [] r.handler = "ServeStaticFile" -> ServeStaticFile(w, r, e)

(* The calls whose failure is a storage, render, static or serialization failure. *)
FallibleCalls ==
    {"SaveExpense", "GetAllExpenses", "DeleteExpense", "ServeTemplate", "ServeStatic",
     "MarshalIndent"}

FailedAt(cs, i) ==
    /\ cs[i].fn \in FallibleCalls
    /\ cs[i].err \notin {"", ErrExpenseNotFound}

(* The fixed message of each handler's 500 responses. *)
GenericFailures ==
    {[kind |-> "error", error |-> "Failed to save expense"],
     [kind |-> "error", error |-> "Failed to retrieve expenses"],
     [kind |-> "error", error |-> "Failed to delete expense"],
     [kind |-> "text", text |-> "Failed to serve template"],
     [kind |-> "text", text |-> "Failed to serve static file"],
     [kind |-> "text", text |-> "Failed to marshal JSON data"]}

ErrDetails == {"disk full", "permission denied", "connection reset by peer"}

(* e with the detail of every error in it replaced by d *)
WithDetail(e, d) == [k \in DOMAIN e |-> IF e[k] = "" THEN "" ELSE d]

(* C8: when a storage, render, static or serialization call fails (the      *)
(* not-found outcome of a delete apart), the response is 500 with one of    *)
(* the fixed messages, it is the response the handler gives for any other   *)
(* error detail, and the failed call is the request's last collaborator     *)
(* call and was made once.                                                  *)
C8_NoErrorDetailLeak ==
    [][\A i \in 1..Len(calls') :
          FailedAt(calls', i)
            => /\ resp'.status = 500
               /\ resp'.body \in GenericFailures
               /\ i = Len(calls')
               /\ \A j \in 1..(i - 1) : calls'[j].fn # calls'[i].fn
               /\ \A d \in ErrDetails :
                     Dispatch(World, req', WithDetail(env', d)).resp = resp']_vars

C8_Witness ==
    /\ req.handler = "ExportJSON"
    /\ calls = <<Call("GetAllExpenses", ""), Call("MarshalIndent", "permission denied")>>
    /\ resp.status = 500
    /\ resp.body = [kind |-> "text", text |-> "Failed to marshal JSON data"]
    /\ Len(expenses) = 1

(* C9: DeleteExpense with the DELETE method answers 400 to an empty or      *)
(* missing id without calling the storage, 404 when the storage delete      *)
(* returns the not-found error, 500 on any other storage error and 200      *)
(* status success on none; 400, 404 and 500 leave the stored expenses as    *)
(* they were.                                                               *)
C9_DeleteOutcomes ==
    [][(req'.handler = "DeleteExpense" /\ req'.method = "DELETE")
         => /\ resp'.status \in {200, 400, 404, 500}
            /\ (req'.id = <<>>) <=> (resp'.status = 400)
            /\ (req'.id = <<>>) => calls' = <<>>
            /\ (req'.id # <<>>)
                 => /\ Len(calls') = 1
                    /\ calls'[1].fn = "DeleteExpense"
                    /\ (calls'[1].err = ErrExpenseNotFound) <=> (resp'.status = 404)
                    /\ (calls'[1].err \notin {"", ErrExpenseNotFound}) <=> (resp'.status = 500)
                    /\ (calls'[1].err = "") <=> (resp'.status = 200)
            /\ (resp'.status = 200) => resp'.body = StatusSuccess
            /\ (resp'.status \in {400, 404, 500})
                 => /\ resp'.body.kind = "error"
                    /\ expenses' = expenses]_vars

C9_Witness ==
    /\ req.handler = "DeleteExpense"
    /\ req.method = "DELETE"
    /\ req.id = <<>>
    /\ resp.status = 400
    /\ calls = <<>>
    /\ Len(expenses) = 2


(***************************************************************************)
(* SpecDate: AddExpense over dates of several instants and offsets.        *)
(***************************************************************************)
DateBodies ==
    {NullBody}
        \cup {ObjectBody(Coffee, Food, 3500, d) : d \in Times({0, 5, 30}, {-1, 0, 1})}

NextDate ==
    \/ AddExpenseReq(DateBodies)
    \/ GetExpensesReq
    \/ DeleteExpenseReq

SpecDate == Init /\ [][NextDate]_vars

(* C6: an expense added with a non-zero date reaches validation and storage *)
(* and is stored with a date in UTC that denotes the instant of the request *)
(* date, whatever its offset; a zero date reaches them and is stored as it  *)
(* came.                                                                    *)
C6_DateNormalized ==
    [][(/\ req'.handler = "AddExpense"
        /\ req'.method = "PUT"
        /\ req'.body.kind = "object")
         => LET d == req'.body.date
                want == IF d.inst = 0 THEN d ELSE [inst |-> d.inst, off |-> 0]
            IN  /\ Called(calls', "Validate")
                /\ CallOf(calls', "Validate").expense.Date = want
                /\ Called(calls', "SaveExpense")
                     => CallOf(calls', "SaveExpense").expense.Date = want
                /\ (resp'.status = 200)
                     => /\ Called(calls', "SaveExpense")
                        /\ expenses'[Len(expenses')].Date = want
                        /\ resp'.body.expense.Date = want]_vars

C6_Witness ==
    /\ req.handler = "AddExpense"
    /\ req.body.kind = "object"
    /\ req.body.date = [inst |-> 5, off |-> -1]
    /\ resp.status = 200
    /\ expenses # <<>>
    /\ expenses[Len(expenses)].Date = [inst |-> 5, off |-> 0]

(***************************************************************************)
(* SpecCSV: ExportCSV over names and categories that hold commas and line  *)
(* breaks.                                                                 *)
(***************************************************************************)
CSVBodies ==
    {ObjectBody(n, c, a, [inst |-> 5, off |-> 1]) :
        n \in {Coffee, <<"a", Comma, "b">>, <<"a", Newline, "b">>},
        c \in {Food, <<"F", Comma, "G">>},
        a \in {3500, 1236}}

NextCSV ==
    \/ AddExpenseReq(CSVBodies)
    \/ ExportCSVReq
    \/ DeleteExpenseReq

SpecCSV == Init /\ [][NextCSV]_vars

(* s split at every sep *)
RECURSIVE SplitOn(_, _)
SplitOn(s, sep) ==
    IF \A i \in 1..Len(s) : s[i] # sep THEN <<s>>
    ELSE LET k == CHOOSE i \in 1..Len(s) : s[i] = sep /\ \A j \in 1..(i - 1) : s[j] # sep
         IN  <<SubSeq(s, 1, k - 1)>> \o SplitOn(SubSeq(s, k + 1, Len(s)), sep)

(* the lines of a text whose lines each end in a line break *)
Lines(text) ==
    LET parts == SplitOn(text, Newline)
    IN  IF parts[Len(parts)] = <<>> THEN SubSeq(parts, 1, Len(parts) - 1) ELSE parts

IsDigit(c) == \E i \in 1..10 : DigitChars[i] = c

TwoDecimals(f) ==
    /\ Len(f) >= 4
    /\ f[Len(f) - 2] = "."
    /\ IsDigit(f[Len(f) - 1])
    /\ IsDigit(f[Len(f)])
    /\ \A i \in 1..(Len(f) - 3) : IsDigit(f[i]) \/ (i = 1 /\ f[i] = "-")

(* C7: the export, split into lines and each line at its commas, is the     *)
(* header row followed by exactly one row per stored expense, in storage    *)
(* order, each of five fields, the amount with two decimals and the name    *)
(* with its commas turned into semicolons.                                  *)
C7_CSVRows ==
    (req.handler = "ExportCSV" /\ resp.status = 200)
        => LET rows == Lines(resp.body.chars)
           IN  /\ Len(rows) = 1 + Len(expenses)
               /\ SplitOn(rows[1], Comma)
                    = <<<<"I", "D">>, <<"N", "a", "m", "e">>,
                        <<"C", "a", "t", "e", "g", "o", "r", "y">>,
                        <<"A", "m", "o", "u", "n", "t">>, <<"D", "a", "t", "e">>>>
               /\ \A i \in 1..Len(expenses) :
                     LET f == SplitOn(rows[i + 1], Comma)
                     IN  /\ Len(f) = 5
                         /\ f[1] = expenses[i].ID
                         /\ f[2] = ReplaceAll(expenses[i].Name, Comma, Semicolon)
                         /\ TwoDecimals(f[4])

(***************************************************************************)
(* SpecConc: one GetCategories request at a time, step by step, while      *)
(* EditCategories and EditCurrency requests run.  The handler reads        *)
(* h.config.Categories and then h.config.Currency, without a lock.  Each   *)
(* read is taken to return a value the field held, and each update to be   *)
(* one step: of the outcomes of the unsynchronised reads, these are the    *)
(* ones most favourable to a consistent response.                          *)
(***************************************************************************)
Reading == gpc \in {"readCategories", "readCurrency", "respond"}

(* line 45: the method is GET, the request goes on *)
GetCategoriesStart ==
    /\ gpc = "idle"
    /\ nreq < MaxConcReq
    /\ nreq' = nreq + 1
    /\ gpc' = "readCategories"
    /\ req' = Request("GetCategories", "GET", <<>>, "", NoBody)
    /\ resp' = NoResponse
    /\ held' = {<<categories, currency>>}
    /\ UNCHANGED <<expenses, nextID, categories, currency, env, calls, gcats, gcur>>

(* line 51 *)
GetCategoriesReadCategories ==
    /\ gpc = "readCategories"
    /\ gcats' = categories
    /\ gpc' = "readCurrency"
    /\ UNCHANGED <<seqVars, gcur, held, nreq>>

(* line 52 *)
GetCategoriesReadCurrency ==
    /\ gpc = "readCurrency"
    /\ gcur' = currency
    /\ gpc' = "respond"
    /\ UNCHANGED <<seqVars, gcats, held, nreq>>

(* line 54 *)
GetCategoriesRespond ==
    /\ gpc = "respond"
    /\ resp' = writeJSON(200, ConfigResponse(gcats, gcur))
    /\ gpc' = "idle"
    /\ UNCHANGED <<expenses, nextID, categories, currency, req, env, calls,
                   gcats, gcur, held, nreq>>

(* lines 63-69 of a concurrent EditCategories request *)
EditCategoriesConc ==
    /\ nreq < MaxConcReq
    /\ nreq' = nreq + 1
    /\ \E b \in CategoryBodies :
          LET dec == DecodeCategories(b)
          IN  /\ dec.err = ""
              /\ categories' = UpdateCategories(World, dec.val).categories
    /\ held' = IF Reading THEN held \cup {<<categories', currency>>} ELSE held
    /\ UNCHANGED <<expenses, nextID, currency, req, env, resp, calls, gpc, gcats, gcur>>

(* lines 80-86 of a concurrent EditCurrency request *)
EditCurrencyConc ==
    /\ nreq < MaxConcReq
    /\ nreq' = nreq + 1
    /\ \E b \in CurrencyBodies :
          LET dec == DecodeCurrency(b)
          IN  /\ dec.err = ""
              /\ currency' = UpdateCurrency(World, dec.val).currency
    /\ held' = IF Reading THEN held \cup {<<categories, currency'>>} ELSE held
    /\ UNCHANGED <<expenses, nextID, categories, req, env, resp, calls, gpc, gcats, gcur>>

NextConc ==
    \/ GetCategoriesStart
    \/ GetCategoriesReadCategories
    \/ GetCategoriesReadCurrency
    \/ GetCategoriesRespond
    \/ EditCategoriesConc
    \/ EditCurrencyConc

SpecConc == Init /\ [][NextConc]_vars

(* C10: the pair a GetCategories response carries is a pair the Config held *)
(* at one instant between the start of the request and its response.        *)
C10_ConsistentSnapshot ==
    (req.handler = "GetCategories" /\ resp.status = 200 /\ gpc = "idle")
        => <<resp.body.categories, resp.body.currency>> \in held

====
